---- MODULE Spec2Model ----
(***************************************************************************)
(* Huffman codec of huffman_file.py: the HuffmanCoding instance (heap,     *)
(* codes, reverse_mapping) with its compress / decompress operations, the  *)
(* padding functions, and the file-level load_huffman_codes /              *)
(* decompress_file.                                                        *)
(*                                                                         *)
(* Representation.  A Python str is a sequence of one-character strings,   *)
(* a text is a sequence of symbols (code points, integers), bytes is a     *)
(* sequence of integers 0..255.  A dict is the sequence of its <<key,      *)
(* value>> pairs in insertion order (Python dicts iterate in insertion     *)
(* order and an update keeps the key's position); dict equality ignores    *)
(* the order, as in Python.  None is <<>> and a present optional value x   *)
(* is <<x>>.  A call that may raise returns [exc, msg, val]; exc = ""      *)
(* means a normal return.                                                  *)
(***************************************************************************)
EXTENDS Integers, Sequences, FiniteSets, TLC

\* ---------------------------------------------------------------- bounds
MaxSym == 4      \* symbols are the code points 1..MaxSym
MaxLen == 4      \* longest text given to compress
MaxCalls == 2    \* compress calls made on one instance

Symbols == 1..MaxSym

RECURSIVE SeqsUpTo(_, _)
SeqsUpTo(S, n) ==
  IF n = 0 THEN {<<>>}
  ELSE LET shorter == SeqsUpTo(S, n - 1)
       IN shorter \cup {Append(s, x) : s \in {t \in shorter : Len(t) = n - 1}, x \in S}

Texts == SeqsUpTo(Symbols, MaxLen)

\* The codec compares symbols for equality only (Counter keys, dict keys), and
\* the heap orders nodes by frequency and insertion order, so the first text an
\* instance sees is taken up to renaming: its symbols first occur in the order
\* 1, 2, 3, ...
FirstOccurrencesAscend(t) ==
  \A i \in 1..Len(t) : \/ t[i] = 1
                       \/ \E j \in 1..(i - 1) : t[j] = t[i] \/ t[j] = t[i] - 1
FirstTexts == {t \in Texts : FirstOccurrencesAscend(t)}
\* texts given to an instance that has been called before, besides the text
\* of the last call: the empty text and the one-symbol texts
ReuseTexts == {<<>>} \cup {<<c>> : c \in Symbols}

\* ------------------------------------------------------- Python helpers
None == <<>>
Some(x) == <<x>>

Ok(v) == [exc |-> "", msg |-> "", val |-> v]
Raise(e, m) == [exc |-> e, msg |-> m, val |-> <<>>]

EmptyDict == <<>>
Keys(d) == {d[i][1] : i \in 1..Len(d)}
Has(d, k) == k \in Keys(d)
IndexOf(d, k) == CHOOSE i \in 1..Len(d) : d[i][1] = k
Get(d, k) == d[IndexOf(d, k)][2]
Put(d, k, v) ==
  IF Has(d, k) THEN [d EXCEPT ![IndexOf(d, k)] = <<k, v>>] ELSE Append(d, <<k, v>>)
DictEq(d1, d2) ==
  /\ Keys(d1) = Keys(d2)
  /\ \A k \in Keys(d1) : Get(d1, k) = Get(d2, k)

Slice(s, from, to) == IF to < from THEN <<>> ELSE SubSeq(s, from, to)

\* format(n, '08b'): binary digits, most significant first, zero-filled to 8
RECURSIVE bin(_)
bin(n) == IF n < 2 THEN <<IF n = 1 THEN "1" ELSE "0">>
          ELSE bin(n \div 2) \o <<IF n % 2 = 1 THEN "1" ELSE "0">>
RECURSIVE zfill(_, _)
zfill(s, w) == IF Len(s) >= w THEN s ELSE zfill(<<"0">> \o s, w)
format08b(n) == zfill(bin(n), 8)

\* int(s, 2) for a str of binary digits; ValueError otherwise
IsBinary(s) == \A i \in 1..Len(s) : s[i] \in {"0", "1"}
RECURSIVE int2val(_)
int2val(s) == IF s = <<>> THEN 0
              ELSE 2 * int2val(SubSeq(s, 1, Len(s) - 1)) + (IF s[Len(s)] = "1" THEN 1 ELSE 0)
int2(s) == IF s # <<>> /\ IsBinary(s) THEN Ok(int2val(s))
           ELSE Raise("ValueError", "invalid literal for int() with base 2")

\* ---------------------------------------------------------- HuffmanNode
HuffmanNode(char, freq) == [char |-> char, freq |-> freq, left |-> None, right |-> None]
\* mutant: the comparison is reversed, the heap yields the largest frequency first
lt_reversed(self, other) == self.freq > other.freq
lt(self, other) == self.freq < other.freq

\* ------------------------------------------------------------- heapq
\* Positions are 0-based as in heapq; heap[pos + 1] is the element at pos.
RECURSIVE siftdown_loop(_, _, _, _)
siftdown_loop(heap, startpos, pos, newitem) ==
  IF pos > startpos
  THEN LET parentpos == (pos - 1) \div 2
           parent == heap[parentpos + 1]
       IN IF lt(newitem, parent)
          THEN siftdown_loop([heap EXCEPT ![pos + 1] = parent], startpos, parentpos, newitem)
          ELSE [heap EXCEPT ![pos + 1] = newitem]
  ELSE [heap EXCEPT ![pos + 1] = newitem]
siftdown(heap, startpos, pos) == siftdown_loop(heap, startpos, pos, heap[pos + 1])

RECURSIVE siftup_loop(_, _, _, _)
siftup_loop(heap, startpos, pos, newitem) ==
  LET endpos == Len(heap)
      childpos == 2 * pos + 1
      rightpos == childpos + 1
      smaller == IF rightpos < endpos /\ ~lt(heap[childpos + 1], heap[rightpos + 1])
                 THEN rightpos ELSE childpos
  IN IF childpos < endpos
     THEN siftup_loop([heap EXCEPT ![pos + 1] = heap[smaller + 1]], startpos, smaller, newitem)
     ELSE siftdown([heap EXCEPT ![pos + 1] = newitem], startpos, pos)
siftup(heap, pos) == siftup_loop(heap, pos, pos, heap[pos + 1])

heappush(heap, item) == siftdown(Append(heap, item), 0, Len(heap))

\* heappop returns the popped item and the remaining heap
heappop(heap) ==
  LET lastelt == heap[Len(heap)]
      rest == SubSeq(heap, 1, Len(heap) - 1)
  IN IF rest # <<>>
     THEN [item |-> rest[1], heap |-> siftup([rest EXCEPT ![1] = lastelt], 0)]
     ELSE [item |-> lastelt, heap |-> rest]

\* ------------------------------------------------------- HuffmanCoding
HuffmanCodingNew == [heap |-> <<>>, codes |-> EmptyDict, reverse_mapping |-> EmptyDict]

\* Counter(text): counts, keyed in order of first occurrence
RECURSIVE make_frequency_dict(_)
make_frequency_dict(text) ==
  IF text = <<>> THEN EmptyDict
  ELSE LET d == make_frequency_dict(SubSeq(text, 1, Len(text) - 1))
           c == text[Len(text)]
       IN Put(d, c, IF Has(d, c) THEN Get(d, c) + 1 ELSE 1)

RECURSIVE make_heap_loop(_, _, _)
make_heap_loop(heap, frequency, i) ==
  IF i > Len(frequency) THEN heap
  ELSE make_heap_loop(heappush(heap, HuffmanNode(Some(frequency[i][1]), frequency[i][2])),
                      frequency, i + 1)
make_heap(self, frequency) == [self EXCEPT !.heap = make_heap_loop(self.heap, frequency, 1)]

\* mutant: the children are attached the other way round
merge_nodes_body_swapped(heap) ==
  LET p1 == heappop(heap)
      p2 == heappop(p1.heap)
      node1 == p1.item
      node2 == p2.item
      merged == [char |-> None, freq |-> node1.freq + node2.freq,
                 left |-> Some(node2), right |-> Some(node1)]
  IN [heap |-> heappush(p2.heap, merged), merged |-> merged]

\* one pass of the while loop: the heap it leaves and the node it created
merge_nodes_body(heap) ==
  LET p1 == heappop(heap)
      p2 == heappop(p1.heap)
      node1 == p1.item
      node2 == p2.item
      merged == [char |-> None, freq |-> node1.freq + node2.freq,
                 left |-> Some(node1), right |-> Some(node2)]
  IN [heap |-> heappush(p2.heap, merged), merged |-> merged]

RECURSIVE merge_nodes_loop(_)
merge_nodes_loop(heap) ==
  IF Len(heap) > 1
  THEN merge_nodes_loop(merge_nodes_body(heap).heap)
  ELSE heap
merge_nodes(self) == [self EXCEPT !.heap = merge_nodes_loop(self.heap)]

\* mutant: the right branch appends "0" like the left one
RECURSIVE make_codes_helper_right0(_, _, _)
make_codes_helper_right0(node, current_code, tables) ==
  IF node = None THEN tables
  ELSE LET n == node[1] IN
    IF n.char # None
    THEN LET code == IF current_code = <<>> THEN <<"0">> ELSE current_code
         IN [codes |-> Put(tables.codes, n.char[1], code),
             reverse_mapping |-> Put(tables.reverse_mapping, code, n.char[1])]
    ELSE make_codes_helper_right0(n.right, current_code \o <<"0">>,
           make_codes_helper_right0(n.left, current_code \o <<"0">>, tables))

\* mutant: a leaf takes current_code as it is, without the `or "0"`
RECURSIVE make_codes_helper_no_default(_, _, _)
make_codes_helper_no_default(node, current_code, tables) ==
  IF node = None THEN tables
  ELSE LET n == node[1] IN
    IF n.char # None
    THEN [codes |-> Put(tables.codes, n.char[1], current_code),
          reverse_mapping |-> Put(tables.reverse_mapping, current_code, n.char[1])]
    ELSE make_codes_helper_no_default(n.right, current_code \o <<"1">>,
           make_codes_helper_no_default(n.left, current_code \o <<"0">>, tables))

\* node is an optional node; tables is [codes, reverse_mapping]
RECURSIVE make_codes_helper(_, _, _)
make_codes_helper(node, current_code, tables) ==
  IF node = None THEN tables
  ELSE LET n == node[1] IN
    IF n.char # None
    THEN LET code == IF current_code = <<>> THEN <<"0">> ELSE current_code
         IN [codes |-> Put(tables.codes, n.char[1], code),
             reverse_mapping |-> Put(tables.reverse_mapping, code, n.char[1])]
    ELSE make_codes_helper(n.right, current_code \o <<"1">>,
           make_codes_helper(n.left, current_code \o <<"0">>, tables))

\* mutant: the root is read but left in the heap
make_codes_keeps_root(self) ==
  IF self.heap = <<>> THEN self
  ELSE LET t == make_codes_helper(Some(self.heap[1]), <<>>,
                  [codes |-> self.codes, reverse_mapping |-> self.reverse_mapping])
       IN [heap |-> self.heap, codes |-> t.codes, reverse_mapping |-> t.reverse_mapping]

make_codes(self) ==
  IF self.heap = <<>> THEN self
  ELSE LET p == heappop(self.heap)
           t == make_codes_helper(Some(p.item), <<>>,
                  [codes |-> self.codes, reverse_mapping |-> self.reverse_mapping])
       IN [heap |-> p.heap, codes |-> t.codes, reverse_mapping |-> t.reverse_mapping]

RECURSIVE get_encoded_text_loop(_, _, _, _)
get_encoded_text_loop(codes, text, i, encoded_text) ==
  IF i > Len(text) THEN Ok(encoded_text)
  ELSE IF ~Has(codes, text[i]) THEN Raise("KeyError", "Character not found in Huffman codes")
  ELSE get_encoded_text_loop(codes, text, i + 1, encoded_text \o Get(codes, text[i]))
get_encoded_text(self, text) ==
  IF self.codes = EmptyDict THEN Raise("KeyError", "No Huffman codes available")
  ELSE get_encoded_text_loop(self.codes, text, 1, <<>>)

\* mutant: a padding amount of 8 is not reset to 0
pad_encoded_text_pads8(encoded_text) ==
  LET padding_amount == 8 - (Len(encoded_text) % 8)
      padding_info == format08b(padding_amount)
  IN padding_info \o encoded_text \o [i \in 1..padding_amount |-> "0"]

pad_encoded_text(encoded_text) ==
  LET amount == 8 - (Len(encoded_text) % 8)
      padding_amount == IF amount = 8 THEN 0 ELSE amount
      padding_info == format08b(padding_amount)
  IN padding_info \o encoded_text \o [i \in 1..padding_amount |-> "0"]

RECURSIVE get_byte_array_loop(_, _)
get_byte_array_loop(padded_encoded_text, i) ==
  IF i > Len(padded_encoded_text) THEN <<>>
  ELSE LET hi == IF i + 7 > Len(padded_encoded_text) THEN Len(padded_encoded_text) ELSE i + 7
       IN <<int2val(SubSeq(padded_encoded_text, i, hi))>>
            \o get_byte_array_loop(padded_encoded_text, i + 8)
get_byte_array(padded_encoded_text) ==
  IF padded_encoded_text = <<>>
  THEN Raise("ValueError", "Cannot create byte array from empty input")
  ELSE Ok(get_byte_array_loop(padded_encoded_text, 1))

\* compress returns [exc, msg, val, self]: val is <<byte_array, self.codes>> and
\* self is the instance as the call leaves it (also when it raises).
compress(self, text) ==
  IF text = <<>>
  THEN [exc |-> "ValueError", msg |-> "Cannot compress empty text", val |-> <<>>, self |-> self]
  ELSE LET frequency == make_frequency_dict(text)
           coded == make_codes(merge_nodes(make_heap(self, frequency)))
           encoded_text == get_encoded_text(coded, text)
           padded_encoded_text == pad_encoded_text(encoded_text.val)
           byte_array == get_byte_array(padded_encoded_text)
       IN IF encoded_text.exc # ""
          THEN [exc |-> encoded_text.exc, msg |-> encoded_text.msg, val |-> <<>>, self |-> coded]
          ELSE IF byte_array.exc # ""
          THEN [exc |-> byte_array.exc, msg |-> byte_array.msg, val |-> <<>>, self |-> coded]
          ELSE [exc |-> "", msg |-> "", val |-> <<byte_array.val, coded.codes>>, self |-> coded]

\* mutant: bit_string[8:-padding_amount] also when padding_amount is 0
remove_padding_always_slices(bit_string) ==
  IF Len(bit_string) < 8 THEN Raise("ValueError", "Invalid bit string: too short")
  ELSE LET padding_info == SubSeq(bit_string, 1, 8)
           parsed == int2(padding_info)
           padding_amount == parsed.val
           stripped == IF padding_amount > 0
                       THEN Slice(bit_string, 9, Len(bit_string) - padding_amount)
                       ELSE <<>>
       IN IF parsed.exc # "" THEN Raise("ValueError", "Invalid padding information")
          ELSE IF padding_amount > 7
                  \/ (padding_amount > 0 /\ Len(bit_string) < 8 + padding_amount)
          THEN Raise("ValueError",
                     "Invalid bit string: invalid padding amount or insufficient length")
          ELSE IF stripped = <<>>
          THEN Raise("ValueError", "Invalid bit string: no data after padding")
          ELSE Ok(stripped)

remove_padding(bit_string) ==
  IF Len(bit_string) < 8 THEN Raise("ValueError", "Invalid bit string: too short")
  ELSE LET padding_info == SubSeq(bit_string, 1, 8)
           parsed == int2(padding_info)
           padding_amount == parsed.val
           stripped == IF padding_amount > 0
                       THEN Slice(bit_string, 9, Len(bit_string) - padding_amount)
                       ELSE Slice(bit_string, 9, Len(bit_string))
       IN IF parsed.exc # "" THEN Raise("ValueError", "Invalid padding information")
          ELSE IF padding_amount > 7
                  \/ (padding_amount > 0 /\ Len(bit_string) < 8 + padding_amount)
          THEN Raise("ValueError",
                     "Invalid bit string: invalid padding amount or insufficient length")
          ELSE IF stripped = <<>>
          THEN Raise("ValueError", "Invalid bit string: no data after padding")
          ELSE Ok(stripped)

\* the for loop of decode_text from bit i on: [exc, msg, current_code, decoded_text]
RECURSIVE decode_text_loop(_, _, _, _, _)
decode_text_loop(reverse_mapping, encoded_text, i, current_code, decoded_text) ==
  IF i > Len(encoded_text)
  THEN [exc |-> "", msg |-> "", current_code |-> current_code, decoded_text |-> decoded_text]
  ELSE IF encoded_text[i] \notin {"0", "1"}
  THEN [exc |-> "ValueError", msg |-> "Invalid encoded text: contains non-binary characters",
        current_code |-> current_code, decoded_text |-> decoded_text]
  ELSE LET code == Append(current_code, encoded_text[i])
       IN IF Has(reverse_mapping, code)
          THEN decode_text_loop(reverse_mapping, encoded_text, i + 1, <<>>,
                                Append(decoded_text, Get(reverse_mapping, code)))
          ELSE decode_text_loop(reverse_mapping, encoded_text, i + 1, code, decoded_text)

\* mutant: the leftover current_code is not checked after the loop
decode_text_ignores_leftover(self, encoded_text) ==
  IF encoded_text = <<>> THEN Raise("ValueError", "Invalid encoded text: empty input")
  ELSE LET r == decode_text_loop(self.reverse_mapping, encoded_text, 1, <<>>, <<>>)
       IN IF r.exc # "" THEN Raise(r.exc, r.msg) ELSE Ok(r.decoded_text)

decode_text(self, encoded_text) ==
  IF encoded_text = <<>> THEN Raise("ValueError", "Invalid encoded text: empty input")
  ELSE LET r == decode_text_loop(self.reverse_mapping, encoded_text, 1, <<>>, <<>>)
       IN IF r.exc # "" THEN Raise(r.exc, r.msg)
          ELSE IF r.current_code # <<>>
          THEN Raise("ValueError", "Invalid encoded text: incomplete code")
          ELSE Ok(r.decoded_text)

RECURSIVE bits_of(_)
bits_of(byte_array) ==
  IF byte_array = <<>> THEN <<>>
  ELSE format08b(byte_array[1]) \o bits_of(Tail(byte_array))

\* decompress returns the text, "" (<<>>) when a stage raised ValueError
decompress(self, byte_array) ==
  LET bit_string == bits_of(byte_array)
      encoded_text == remove_padding(bit_string)
      decompressed_text == decode_text(self, encoded_text.val)
  IN IF encoded_text.exc = "ValueError" THEN <<>>
     ELSE IF decompressed_text.exc = "ValueError" THEN <<>>
     ELSE decompressed_text.val

\* {v: k for k, v in codes.items()}  (test_huffman_file.py, the caller's inverse)
RECURSIVE invert_loop(_, _, _)
invert_loop(codes, i, acc) ==
  IF i > Len(codes) THEN acc
  ELSE invert_loop(codes, i + 1, Put(acc, codes[i][2], codes[i][1]))
invert(codes) == invert_loop(codes, 1, EmptyDict)

\* ------------------------------------------------ persisted code table
Whitespace == {" "}
RECURSIVE lstrip(_)
lstrip(s) == IF s # <<>> /\ s[1] \in Whitespace THEN lstrip(Tail(s)) ELSE s
RECURSIVE rstrip(_)
rstrip(s) == IF s # <<>> /\ s[Len(s)] \in Whitespace
             THEN rstrip(SubSeq(s, 1, Len(s) - 1)) ELSE s
strip(s) == rstrip(lstrip(s))

\* s.split(','): the list of fields between commas
RECURSIVE split_loop(_, _, _)
split_loop(s, i, field) ==
  IF i > Len(s) THEN <<field>>
  ELSE IF s[i] = "," THEN <<field>> \o split_loop(s, i + 1, <<>>)
  ELSE split_loop(s, i + 1, Append(field, s[i]))
split(s) == split_loop(s, 1, <<>>)

\* int(s): decimal, surrounding whitespace ignored; ValueError otherwise
Digits == <<"0", "1", "2", "3", "4", "5", "6", "7", "8", "9">>
DigitVal(c) == (CHOOSE k \in 1..10 : Digits[k] = c) - 1
IsDigit(c) == \E k \in 1..10 : Digits[k] = c
RECURSIVE int10val(_)
int10val(s) == IF s = <<>> THEN 0
               ELSE 10 * int10val(SubSeq(s, 1, Len(s) - 1)) + DigitVal(s[Len(s)])
int10(s) ==
  LET t == strip(s)
  IN IF t # <<>> /\ \A k \in 1..Len(t) : IsDigit(t[k]) THEN Ok(int10val(t))
     ELSE Raise("ValueError", "invalid literal for int() with base 10")

MaxCodePoint == 1114111
\* the body of the for loop, for one line; tables is <<codes, reverse_mapping>>
load_line(tables, raw) ==
  LET line == strip(raw)
      fields == split(line)
      char_code == int10(fields[1])
  IN IF line = <<>> THEN Ok(tables)
     ELSE IF Len(fields) # 2 THEN Raise("ValueError", "wrong number of values to unpack")
     ELSE IF char_code.exc # "" THEN char_code
     ELSE IF char_code.val > MaxCodePoint THEN Raise("ValueError", "chr() arg not in range")
     ELSE Ok(<<Put(tables[1], char_code.val, fields[2]),
               Put(tables[2], fields[2], char_code.val)>>)

RECURSIVE load_lines(_, _, _)
load_lines(tables, lines, i) ==
  IF i > Len(lines) THEN Ok(tables)
  ELSE LET r == load_line(tables, lines[i])
       IN IF r.exc # "" THEN r ELSE load_lines(r.val, lines, i + 1)

\* input_file is the optional list of the file's lines (None: cannot be opened)
load_huffman_codes(input_file) ==
  IF input_file = None THEN <<EmptyDict, EmptyDict>>
  ELSE LET r == load_lines(<<EmptyDict, EmptyDict>>, input_file[1], 1)
       IN IF r.exc # "" THEN <<EmptyDict, EmptyDict>> ELSE r.val

\* decompress_file up to the write: [ret, text]; ret = "write" means the
\* function goes on to write text to output_file
decompress_file(compressed, codes_lines) ==
  IF compressed = None THEN [ret |-> "SystemExit", text |-> <<>>]
  ELSE LET compressed_data == compressed[1]
           tables == load_huffman_codes(codes_lines)
           huffman == [HuffmanCodingNew EXCEPT !.codes = tables[1],
                                               !.reverse_mapping = tables[2]]
           decompressed_text == decompress(huffman, compressed_data)
       IN IF tables[1] = EmptyDict THEN [ret |-> "False", text |-> <<>>]
          ELSE IF decompressed_text = <<>> /\ compressed_data # <<>>
          THEN [ret |-> "False", text |-> <<>>]
          ELSE [ret |-> "write", text |-> decompressed_text]

\* ================================================================ state
VARIABLES
  heap, codes, reverse_mapping,  \* the HuffmanCoding instance
  ncalls,        \* compress calls made on the instance so far
  op,            \* the last operation applied to the instance
  cText, cBytes, cCodes,  \* argument and return value of the last compress that returned
  cFresh,        \* that compress was the first call on the instance
  root,          \* the tree root that compress handed to make_codes
  rep,           \* return value of the compress before it, when it had the same text
  dIn, dOut,     \* argument and return value of the last decompress
  ppc, encoded_text, padded_text, stripped,      \* padding round trip
  fpc, compressed_file, codes_file, loaded, result, output_file,  \* decompress_file run
  tpc, freq_dict,      \* merge_nodes run: position, the Counter given to make_heap
  created,             \* internal nodes created so far
  mBefore, mMerged     \* last pass of the loop: the heap before it, the node it created

instVars == <<heap, codes, reverse_mapping, ncalls, op, cText, cBytes, cCodes, cFresh,
              root, rep, dIn, dOut>>
padVars == <<ppc, encoded_text, padded_text, stripped>>
fileVars == <<fpc, compressed_file, codes_file, loaded, result, output_file>>
treeVars == <<tpc, freq_dict, created, mBefore, mMerged>>
vars == <<instVars, padVars, fileVars, treeVars>>

Self == [heap |-> heap, codes |-> codes, reverse_mapping |-> reverse_mapping]

InstInit ==
  /\ heap = <<>> /\ codes = EmptyDict /\ reverse_mapping = EmptyDict
  /\ ncalls = 0 /\ op = "init"
  /\ cText = <<>> /\ cBytes = <<>> /\ cCodes = EmptyDict /\ cFresh = FALSE
  /\ root = None /\ rep = None /\ dIn = <<>> /\ dOut = <<>>
PadIdle == ppc = "idle" /\ encoded_text = <<>> /\ padded_text = <<>> /\ stripped = Ok(<<>>)
TreeIdle ==
  /\ tpc = "idle" /\ freq_dict = EmptyDict /\ created = 0
  /\ mBefore = <<>> /\ mMerged = None
FileIdle ==
  /\ fpc = "idle" /\ compressed_file = None /\ codes_file = None
  /\ loaded = <<EmptyDict, EmptyDict>> /\ result = "none" /\ output_file = None

\* ------------------------------------------------- the codec instance
\* huffman.compress(text)
Compress(text) ==
  /\ ncalls < MaxCalls
  /\ LET r == compress(Self, text)
         treed == merge_nodes(make_heap(Self, make_frequency_dict(text)))
     IN /\ heap' = r.self.heap
        /\ codes' = r.self.codes
        /\ reverse_mapping' = r.self.reverse_mapping
        /\ IF r.exc = ""
           THEN /\ op' = "compress"
                /\ cText' = text /\ cBytes' = r.val[1] /\ cCodes' = r.val[2]
                /\ cFresh' = (ncalls = 0)
                /\ root' = Some(treed.heap[1])
                /\ rep' = IF cText = text THEN Some(<<cBytes, cCodes>>) ELSE None
           ELSE /\ op' = "compress raised"
                /\ UNCHANGED <<cText, cBytes, cCodes, cFresh, root, rep>>
  /\ ncalls' = ncalls + 1
  /\ dIn' = <<>> /\ dOut' = <<>>
  /\ UNCHANGED <<padVars, fileVars, treeVars>>

\* huffman.reverse_mapping = {v: k for k, v in codes.items()}
SetReverseMapping ==
  /\ reverse_mapping' = invert(codes)
  /\ op' = "set reverse_mapping"
  /\ dIn' = <<>> /\ dOut' = <<>>
  /\ UNCHANGED <<heap, codes, ncalls, cText, cBytes, cCodes, cFresh, root, rep>>
  /\ UNCHANGED <<padVars, fileVars, treeVars>>

\* byte arrays given to decompress besides the artifact of the last compress
DecompressInputs ==
  { <<>>, <<8, 0>>, <<0>>, <<7>>, <<7, 0>>, <<7, 128>>, <<0, 129>> }

\* huffman.decompress(byte_array)
Decompress(byte_array) ==
  /\ op' = "decompress"
  /\ dIn' = byte_array
  /\ dOut' = decompress(Self, byte_array)
  /\ UNCHANGED <<heap, codes, reverse_mapping, ncalls, cText, cBytes, cCodes, cFresh,
                 root, rep>>
  /\ UNCHANGED <<padVars, fileVars, treeVars>>

\* a later call compresses the last text again or one of ReuseTexts
CompressInputs == IF ncalls = 0 THEN FirstTexts ELSE ReuseTexts \cup {cText}

Init == InstInit /\ PadIdle /\ FileIdle /\ TreeIdle
Next ==
  \/ \E text \in CompressInputs : Compress(text)
  \/ SetReverseMapping
  \/ \E byte_array \in DecompressInputs \cup {cBytes} : Decompress(byte_array)
Spec == Init /\ [][Next]_vars

\* --------------------------------------------------- padding round trip
MaxBits == 9     \* longest bit string given to pad_encoded_text
BitStrings == SeqsUpTo({"0", "1"}, MaxBits)

PadInit ==
  /\ ppc = "start" /\ encoded_text \in BitStrings
  /\ padded_text = <<>> /\ stripped = Ok(<<>>)

\* padded_text = pad_encoded_text(encoded_text)
Pad ==
  /\ ppc = "start"
  /\ padded_text' = pad_encoded_text(encoded_text)
  /\ ppc' = "padded"
  /\ UNCHANGED <<encoded_text, stripped, instVars, fileVars, treeVars>>

\* remove_padding(padded_text)
RemovePadding ==
  /\ ppc = "padded"
  /\ stripped' = remove_padding(padded_text)
  /\ ppc' = "done"
  /\ UNCHANGED <<encoded_text, padded_text, instVars, fileVars, treeVars>>

InitPad == InstInit /\ PadInit /\ FileIdle /\ TreeIdle
NextPad == Pad \/ RemovePadding
SpecPad == InitPad /\ [][NextPad]_vars

\* ------------------------------------------------------ decompress_file
MaxLineLen == 3  \* longest line of the codes file
MaxLines == 2    \* lines in the codes file
LineChars == {"1", ",", "x", " "}
Lines == SeqsUpTo(LineChars, MaxLineLen)
CodesFiles == {None} \cup {Some(f) : f \in SeqsUpTo(Lines, MaxLines)}
CompressedFiles == {None, Some(<<>>), Some(<<7, 128>>), Some(<<8, 0>>)}

FileInit ==
  /\ fpc = "start"
  /\ compressed_file \in CompressedFiles
  /\ codes_file \in CodesFiles
  /\ loaded = <<EmptyDict, EmptyDict>> /\ result = "none" /\ output_file = None

\* decompress_file returns before the write (or exits: no compressed file)
DecompressFileReturn ==
  /\ fpc = "start"
  /\ decompress_file(compressed_file, codes_file).ret # "write"
  /\ result' = decompress_file(compressed_file, codes_file).ret
  /\ loaded' = IF compressed_file = None THEN loaded ELSE load_huffman_codes(codes_file)
  /\ fpc' = "done"
  /\ UNCHANGED <<compressed_file, codes_file, output_file, instVars, padVars, treeVars>>

\* decompress_file writes the text and returns True
DecompressFileWrite ==
  /\ fpc = "start"
  /\ decompress_file(compressed_file, codes_file).ret = "write"
  /\ output_file' = Some(decompress_file(compressed_file, codes_file).text)
  /\ result' = "True"
  /\ loaded' = load_huffman_codes(codes_file)
  /\ fpc' = "done"
  /\ UNCHANGED <<compressed_file, codes_file, instVars, padVars, treeVars>>

\* the write raises (output file cannot be opened): returns False
DecompressFileWriteFails ==
  /\ fpc = "start"
  /\ decompress_file(compressed_file, codes_file).ret = "write"
  /\ result' = "False"
  /\ loaded' = load_huffman_codes(codes_file)
  /\ fpc' = "done"
  /\ UNCHANGED <<compressed_file, codes_file, output_file, instVars, padVars, treeVars>>

InitFile == InstInit /\ PadIdle /\ FileInit /\ TreeIdle
NextFile == DecompressFileReturn \/ DecompressFileWrite \/ DecompressFileWriteFails
SpecFile == InitFile /\ [][NextFile]_vars

\* ---------------------------------------------- make_heap, merge_nodes
MaxLeaves == 5   \* entries of the Counter given to make_heap
MaxFreq == 3     \* largest count in it

\* Counters with the symbols 1..n in insertion order and counts 1..MaxFreq
FreqDicts ==
  {[i \in 1..Len(f) |-> <<i, f[i]>>] : f \in SeqsUpTo(1..MaxFreq, MaxLeaves)}

TreeInit ==
  /\ tpc = "start" /\ freq_dict \in FreqDicts /\ created = 0
  /\ mBefore = <<>> /\ mMerged = None

otherInstVars == <<codes, reverse_mapping, ncalls, op, cText, cBytes, cCodes, cFresh,
                   root, rep, dIn, dOut>>

\* huffman.make_heap(freq_dict) on the fresh instance
MakeHeap ==
  /\ tpc = "start"
  /\ heap' = make_heap(Self, freq_dict).heap
  /\ tpc' = "merging"
  /\ UNCHANGED <<freq_dict, created, mBefore, mMerged, otherInstVars, padVars, fileVars>>

\* merge_nodes: one pass of the while loop
MergeStep ==
  /\ tpc = "merging" /\ Len(heap) > 1
  /\ heap' = merge_nodes_body(heap).heap
  /\ mBefore' = heap
  /\ mMerged' = Some(merge_nodes_body(heap).merged)
  /\ created' = created + 1
  /\ UNCHANGED <<tpc, freq_dict, otherInstVars, padVars, fileVars>>

\* merge_nodes: the loop condition fails and the method returns
MergeReturn ==
  /\ tpc = "merging" /\ ~(Len(heap) > 1)
  /\ tpc' = "done"
  /\ UNCHANGED <<heap, freq_dict, created, mBefore, mMerged, otherInstVars, padVars,
                 fileVars>>

InitTree == InstInit /\ PadIdle /\ FileIdle /\ TreeInit
NextTree == MakeHeap \/ MergeStep \/ MergeReturn
SpecTree == InitTree /\ [][NextTree]_vars

\* =============================================================== claims
IsPrefix(a, b) == Len(a) <= Len(b) /\ SubSeq(b, 1, Len(a)) = a
PrefixFree(d) ==
  \A k1, k2 \in Keys(d) : k1 # k2 => ~IsPrefix(Get(d, k1), Get(d, k2))
DistinctSymbols(t) == {t[i] : i \in 1..Len(t)}
Singleton(t) == t # <<>> /\ \A i \in 1..Len(t) : t[i] = t[1]

\* C1: a compress on a fresh instance, then decompress of the returned bytes
\* with reverse_mapping set to the inverse of the returned code table,
\* returns the text that was compressed.
C1_RoundTrip ==
  (/\ op = "decompress" /\ cFresh /\ dIn = cBytes
   /\ DictEq(reverse_mapping, invert(cCodes)))
  => dOut = cText
\* a four-symbol text whose raw bit string fills whole bytes has come back
C1_Witness ==
  /\ op = "decompress" /\ cFresh /\ dIn = cBytes
  /\ DictEq(reverse_mapping, invert(cCodes))
  /\ Cardinality(DistinctSymbols(cText)) = 4
  /\ cBytes[1] = 0
  /\ dOut = cText

\* C2: the code table returned by a compress call, and the instance's
\* reverse_mapping after it, equal those a fresh instance produces for the
\* same text.
C2_RebuiltFromScratch ==
  op = "compress" =>
    LET fresh == compress(HuffmanCodingNew, cText)
    IN /\ DictEq(cCodes, fresh.val[2])
       /\ DictEq(reverse_mapping, fresh.self.reverse_mapping)

\* C3: the code table of a compress on a fresh instance gives no symbol a code
\* that is a prefix of (or equal to) another symbol's code, and every code is
\* a non-empty string of 0s and 1s.
C3_PrefixFree ==
  (op = "compress" /\ cFresh) =>
    /\ PrefixFree(cCodes)
    /\ \A k \in Keys(cCodes) : Get(cCodes, k) # <<>> /\ IsBinary(Get(cCodes, k))
\* a table of at least three codes of different lengths
C3_Witness ==
  /\ op = "compress" /\ cFresh
  /\ Cardinality(Keys(cCodes)) >= 3
  /\ \E k1, k2 \in Keys(cCodes) : Len(Get(cCodes, k1)) < Len(Get(cCodes, k2))
  /\ PrefixFree(cCodes)

PaddingCount(padded) == int2val(SubSeq(padded, 1, 8))
PaddedWellFormed ==
  ppc \in {"padded", "done"} =>
    /\ Len(padded_text) % 8 = 0
    /\ PaddingCount(padded_text) \in 0..7
    /\ (Len(encoded_text) % 8 = 0 => PaddingCount(padded_text) = 0)
\* C4 as stated: for every bit string B the padded string is a whole number
\* of bytes with a padding count in 0..7 (0 when len(B) is a multiple of 8)
\* and remove_padding returns B.
C4_Original ==
  /\ PaddedWellFormed
  /\ ppc = "done" => (stripped.exc = "" /\ stripped.val = encoded_text)
\* C4 amended: the same for every non-empty bit string B; the padded form of
\* the empty bit string is well formed too, but remove_padding raises
\* ValueError on it.
C4_PaddingCorrect ==
  /\ PaddedWellFormed
  /\ (ppc = "done" /\ encoded_text # <<>>) =>
       (stripped.exc = "" /\ stripped.val = encoded_text)
  /\ (ppc = "done" /\ encoded_text = <<>>) => stripped.exc = "ValueError"
\* an 8-bit string went through with padding count 0
C4_Witness ==
  /\ ppc = "done" /\ Len(encoded_text) = 8
  /\ PaddingCount(padded_text) = 0
  /\ stripped.exc = "" /\ stripped.val = encoded_text

\* the bits decompress hands to decode_text: all bits after the first byte
\* but the declared padding
PayloadOf(byte_array) ==
  LET bits == bits_of(Tail(byte_array))
  IN Slice(bits, 1, Len(bits) - byte_array[1])
\* what is left of bits after taking, again and again, its shortest prefix
\* that is a code
RECURSIVE Leftover(_, _)
Leftover(bits, K) ==
  LET hits == {n \in 1..Len(bits) : SubSeq(bits, 1, n) \in K}
  IN IF hits = {} THEN bits
     ELSE LET n == CHOOSE m \in hits : \A o \in hits : m <= o
          IN Leftover(SubSeq(bits, n + 1, Len(bits)), K)
PaddingCountTooLarge(byte_array) == byte_array # <<>> /\ byte_array[1] > 7
PayloadEmpty(byte_array) ==
  /\ byte_array # <<>> /\ byte_array[1] <= 7
  /\ 8 * (Len(byte_array) - 1) - byte_array[1] <= 0
LeftoverBits(byte_array, K) ==
  /\ byte_array # <<>> /\ byte_array[1] <= 7
  /\ Leftover(PayloadOf(byte_array), K) # <<>>
\* C5: decompress returns "" for a byte sequence whose first byte is above 7,
\* or whose payload is empty, or whose payload ends with bits that match no
\* code of reverse_mapping.
C5_CorruptionRejected ==
  (/\ op = "decompress"
   /\ \/ PaddingCountTooLarge(dIn)
      \/ PayloadEmpty(dIn)
      \/ LeftoverBits(dIn, Keys(reverse_mapping)))
  => dOut = <<>>
\* symbols were decoded before the leftover bits, and nothing is returned
C5_Witness ==
  /\ op = "decompress" /\ dIn # <<>> /\ dIn[1] <= 7
  /\ Leftover(PayloadOf(dIn), Keys(reverse_mapping)) # <<>>
  /\ Leftover(PayloadOf(dIn), Keys(reverse_mapping)) # PayloadOf(dIn)
  /\ dOut = <<>>

\* C6: a compress given the same text as the compress before it on the same
\* instance returns the same code table and the same bytes.
C6_SameTextSameResult ==
  (op = "compress" /\ rep # None) =>
    /\ rep[1][1] = cBytes
    /\ DictEq(rep[1][2], cCodes)
\* four symbols of frequency 1: ties among the leaves and among the merged nodes
C6_Witness ==
  /\ op = "compress" /\ rep # None
  /\ Len(cText) = 4 /\ Cardinality(DistinctSymbols(cText)) = 4
  /\ rep[1][1] = cBytes /\ DictEq(rep[1][2], cCodes)

\* C7: for a text of one repeated symbol a, compress on a fresh instance hands
\* make_codes a leaf (no internal node), leaves codes {a: "0"} and
\* reverse_mapping {"0": a}, and decompress of the bytes returns the text.
C7_SingletonAlphabet ==
  /\ (op = "compress" /\ cFresh /\ Singleton(cText)) =>
       /\ root[1].char = Some(cText[1])
       /\ root[1].left = None /\ root[1].right = None
       /\ cCodes = <<<<cText[1], <<"0">>>>>>
       /\ codes = cCodes
       /\ reverse_mapping = <<<< <<"0">>, cText[1]>>>>
  /\ (op = "decompress" /\ cFresh /\ Singleton(cText) /\ dIn = cBytes) =>
       dOut = cText
C7_Witness ==
  /\ op = "decompress" /\ cFresh /\ Singleton(cText) /\ Len(cText) = 4
  /\ dIn = cBytes /\ dOut = cText

WellFormedLine(line) ==
  \E k \in 2..(Len(line) - 1) :
    /\ line[k] = ","
    /\ \A j \in 1..(k - 1) : IsDigit(line[j])
    /\ \A j \in (k + 1)..Len(line) : line[j] \in {"0", "1"}
NonBlankLines(f) == {strip(f[i]) : i \in 1..Len(f)} \ {<<>>}
ValidCodesFile(file) ==
  /\ file # None
  /\ NonBlankLines(file[1]) # {}
  /\ \A line \in NonBlankLines(file[1]) : WellFormedLine(line)

\* C8: decompress_file on a zero-byte compressed file and a valid, non-empty
\* codes file returns False and writes no output file.
C8_EmptyArtifactRejected ==
  (fpc = "done" /\ compressed_file = Some(<<>>) /\ ValidCodesFile(codes_file))
  => (result = "False" /\ output_file = None)

\* a corruption failure: invalid padding count or leftover unmapped bits
CorruptionFailure(byte_array, K) ==
  PaddingCountTooLarge(byte_array) \/ LeftoverBits(byte_array, K)
\* C9: what decompress returns for the empty artifact differs from what it
\* returns for a corruption failure.
C9_FailuresDistinct ==
  (op = "decompress" /\ dIn = <<>>) =>
    \A byte_array \in DecompressInputs :
      CorruptionFailure(byte_array, Keys(reverse_mapping))
        => decompress(Self, byte_array) # dOut

\* C10: when a non-blank line of the codes file is not
\* <ordinal>,<binary-code-string>, load_huffman_codes returns two empty tables
\* and decompress_file returns False.
C10_NoPartialTable ==
  (/\ fpc = "done" /\ compressed_file # None /\ codes_file # None
   /\ \E line \in NonBlankLines(codes_file[1]) : ~WellFormedLine(line))
  => (loaded = <<EmptyDict, EmptyDict>> /\ result = "False")

\* the symbols at the leaves of a tree, left to right
RECURSIVE Leaves(_)
Leaves(n) ==
  IF n.char # None THEN <<n.char[1]>> ELSE Leaves(n.left[1]) \o Leaves(n.right[1])
RECURSIVE InternalNodes(_)
InternalNodes(n) ==
  IF n.char # None THEN 0 ELSE 1 + InternalNodes(n.left[1]) + InternalNodes(n.right[1])
RECURSIVE SumOfCounts(_)
SumOfCounts(d) == IF d = <<>> THEN 0 ELSE d[1][2] + SumOfCounts(Tail(d))
NodesOf(h) == {h[k] : k \in 1..Len(h)}
\* the last pass took the two lowest-frequency nodes of the heap it found,
\* first popped on the left, and put their parent back
LastPassCorrect ==
  mMerged # None =>
    LET m == mMerged[1] IN
    /\ m.char = None
    /\ \E i, j \in 1..Len(mBefore) :
         /\ i # j
         /\ m.left = Some(mBefore[i]) /\ m.right = Some(mBefore[j])
         /\ \A k \in 1..Len(mBefore) : mBefore[i].freq <= mBefore[k].freq
         /\ \A k \in 1..Len(mBefore) \ {i} : mBefore[j].freq <= mBefore[k].freq
         /\ m.freq = mBefore[i].freq + mBefore[j].freq
         /\ NodesOf(heap) = (NodesOf(mBefore) \ {mBefore[i], mBefore[j]}) \cup {m}
    /\ m.left = Some(heappop(mBefore).item)
    /\ m.right = Some(heappop(heappop(mBefore).heap).item)
    /\ Len(heap) = Len(mBefore) - 1
\* C11: merge_nodes on the heap make_heap builds from a Counter of n >= 1
\* entries makes n-1 passes, each creating one internal node over the two
\* lowest-frequency nodes (left the first popped, right the second, frequency
\* their sum), and returns with one node in the heap: a tree with n-1 internal
\* nodes whose root frequency is the sum of the counts and whose leaves are
\* the symbols, each once.  On the empty heap it returns with the heap empty.
C11_TreeConstruction ==
  LET n == Len(freq_dict) IN
  /\ LastPassCorrect
  /\ (tpc \in {"merging", "done"} /\ n >= 1) => Len(heap) + created = n
  /\ (tpc \in {"merging", "done"} /\ created = 0) =>
       heap = make_heap(HuffmanCodingNew, freq_dict).heap
  /\ (tpc = "done" /\ n >= 1) =>
       /\ Len(heap) = 1 /\ created = n - 1
       /\ InternalNodes(heap[1]) = n - 1
       /\ heap[1].freq = SumOfCounts(freq_dict)
       /\ Len(Leaves(heap[1])) = n
       /\ {Leaves(heap[1])[k] : k \in 1..n} = Keys(freq_dict)
       /\ heap = merge_nodes(make_heap(HuffmanCodingNew, freq_dict)).heap
  /\ (tpc = "done" /\ n = 0) => (heap = <<>> /\ created = 0)
\* five leaves, two of them of equal count, merged into one tree
C11_Witness ==
  /\ tpc = "done" /\ Len(freq_dict) = 5 /\ created = 4 /\ Len(heap) = 1
  /\ \E i, j \in 1..5 : i # j /\ freq_dict[i][2] = freq_dict[j][2]
  /\ heap[1].freq = SumOfCounts(freq_dict)

CountOf(t, c) == Cardinality({i \in 1..Len(t) : t[i] = c})
RECURSIVE Pow2(_)
Pow2(k) == IF k = 0 THEN 1 ELSE 2 * Pow2(k - 1)
\* sum over the symbols c of S of count(c) * len[c]
RECURSIVE WeightedLength(_, _, _)
WeightedLength(t, S, len) ==
  IF S = {} THEN 0
  ELSE LET c == CHOOSE x \in S : TRUE
       IN CountOf(t, c) * len[c] + WeightedLength(t, S \ {c}, len)
\* Kraft's inequality, scaled by 2^MaxSym: sum over S of 2^(-len[c]) <= 1.  A
\* prefix-free binary code table with the code lengths len exists exactly when
\* it holds, so the prefix-free tables are ranged over by their lengths.
RECURSIVE KraftSum(_, _)
KraftSum(S, len) ==
  IF S = {} THEN 0
  ELSE LET c == CHOOSE x \in S : TRUE
       IN Pow2(MaxSym - len[c]) + KraftSum(S \ {c}, len)
PrefixFreeLengths(S) ==
  {len \in [S -> 1..MaxSym] : KraftSum(S, len) <= Pow2(MaxSym)}
\* the number of payload bits in the artifact of the last compress
RawBits == 8 * (Len(cBytes) - 1) - cBytes[1]

\* C12: for a text of at least two distinct symbols, the raw bit length of a
\* compress on a fresh instance is the sum over the symbols of count * code
\* length, and no prefix-free binary code table for these symbols gives a
\* smaller sum.
C12_OptimalLength ==
  (op = "compress" /\ cFresh /\ Cardinality(DistinctSymbols(cText)) >= 2) =>
    LET S == DistinctSymbols(cText)
        own == [c \in S |-> Len(Get(cCodes, c))]
    IN /\ RawBits = WeightedLength(cText, S, own)
       /\ own \in PrefixFreeLengths(S)
       /\ \A len \in PrefixFreeLengths(S) :
            WeightedLength(cText, S, own) <= WeightedLength(cText, S, len)
\* three or more symbols of unequal counts, coded with unequal lengths
C12_Witness ==
  /\ op = "compress" /\ cFresh
  /\ Cardinality(DistinctSymbols(cText)) >= 3
  /\ \E c1, c2 \in DistinctSymbols(cText) :
       /\ CountOf(cText, c1) > CountOf(cText, c2)
       /\ Len(Get(cCodes, c1)) < Len(Get(cCodes, c2))
  /\ RawBits = WeightedLength(cText, DistinctSymbols(cText),
                              [c \in DistinctSymbols(cText) |-> Len(Get(cCodes, c))])
====
